---- MODULE Spec2Model ----
(***************************************************************************)
(* A model of the Tetris simulation of src/src/game_state.rs and of the   *)
(* driver loop of src/src/main.rs.                                        *)
(*                                                                         *)
(* Three specifications share the variables:                              *)
(*   Spec        tick() and event() called directly on Tetris::new()      *)
(*   SpecAny     one tick() applied to a Tetris value drawn from a        *)
(*               bounded family of grids and piece placements (the fields *)
(*               are pub(super), so any such value can be built in-crate) *)
(*   SpecDriver  main()'s loop fed by the timer and the input threads     *)
(***************************************************************************)
EXTENDS Integers, Sequences, FiniteSets

VARIABLES
    grid,            \* Tetris.grid: row -> col -> 0 | 1
    piece,           \* Tetris.piece
    rotation,        \* Tetris.rotation
    anchor_row,      \* Tetris.anchor_row
    anchor_col,      \* Tetris.anchor_col
    should_continue, \* the value returned by the last tick() call (TRUE before any)
    panicked,        \* an index outside the grid was used (Rust aborts the call)
    nticks,          \* number of tick() calls made so far
    nspawned,        \* number of pieces painted at the spawn position so far,
                     \* the one new() paints included
    prev,            \* the Tetris value as it was before the last tick() call
    chan,            \* the mpsc channel: messages sent and not yet received
    pc               \* main(): "loop" | "done" (after break) | "exited" (process::exit);
                     \* "setup" while SpecAny still builds its Tetris value

vars == <<grid, piece, rotation, anchor_row, anchor_col, should_continue,
          panicked, nticks, nspawned, prev, chan, pc>>

tetris_vars == <<grid, piece, rotation, anchor_row, anchor_col>>

-----------------------------------------------------------------------------
(* Bounds of the model *)

\* tick() calls made in Spec
MaxTicks == 120
\* messages the channel may hold at once in SpecDriver
MaxQueue == 3
\* SpecAny: completely filled rows drawn into the background
MaxFull == 2

-----------------------------------------------------------------------------
(* Constants and the piece catalogue *)

NCOLS == 10
NROWS == 20

\* enum Piece in declaration order; `piece as i32` is the position minus one
Piece == <<"O", "L", "J", "T", "Z", "S", "I">>

piece_as_i32(p) == CHOOSE i \in 0..6 : Piece[i + 1] = p

\* TryFrom<i32> for Piece; "Err" for a value outside 0..6
try_from(v) == IF v \in 0..6 THEN Piece[v + 1] ELSE "Err"

ROTATION_OFFSETS ==
    [p \in {"O", "L", "J", "T", "Z", "S", "I"} |->
        CASE p = "O" -> << << <<0, 0>>, <<0, 1>>, <<1, 0>>, <<1, 1>> >>,
                           << <<0, 0>>, <<0, 1>>, <<1, 0>>, <<1, 1>> >>,
                           << <<0, 0>>, <<0, 1>>, <<1, 0>>, <<1, 1>> >>,
                           << <<0, 0>>, <<0, 1>>, <<1, 0>>, <<1, 1>> >> >>
          [] p = "L" -> << << <<0, 0>>, <<1, 0>>, <<2, 0>>, <<2, 1>> >>,
                           << <<1, 0>>, <<1, 1>>, <<1, 2>>, <<2, 0>> >>,
                           << <<0, 0>>, <<0, 1>>, <<1, 1>>, <<2, 1>> >>,
                           << <<2, 0>>, <<2, 1>>, <<2, 2>>, <<1, 1>> >> >>
          [] p = "J" -> << << <<2, 0>>, <<2, 1>>, <<0, 1>>, <<1, 1>> >>,
                           << <<1, 0>>, <<2, 0>>, <<2, 1>>, <<2, 2>> >>,
                           << <<0, 0>>, <<1, 0>>, <<2, 0>>, <<0, 1>> >>,
                           << <<1, 0>>, <<1, 1>>, <<1, 2>>, <<2, 2>> >> >>
          [] p = "T" -> << << <<0, 0>>, <<0, 1>>, <<0, 2>>, <<1, 1>> >>,
                           << <<1, 0>>, <<0, 1>>, <<1, 1>>, <<2, 1>> >>,
                           << <<1, 0>>, <<0, 1>>, <<1, 1>>, <<1, 2>> >>,
                           << <<0, 0>>, <<1, 0>>, <<2, 0>>, <<1, 1>> >> >>
          [] p = "Z" -> << << <<0, 0>>, <<0, 1>>, <<1, 1>>, <<1, 2>> >>,
                           << <<1, 0>>, <<0, 1>>, <<1, 1>>, <<2, 0>> >>,
                           << <<0, 0>>, <<0, 1>>, <<1, 1>>, <<1, 2>> >>,
                           << <<1, 0>>, <<0, 1>>, <<1, 1>>, <<2, 0>> >> >>
          [] p = "S" -> << << <<1, 0>>, <<0, 1>>, <<1, 1>>, <<0, 2>> >>,
                           << <<0, 0>>, <<1, 0>>, <<1, 1>>, <<2, 1>> >>,
                           << <<1, 0>>, <<0, 1>>, <<1, 1>>, <<0, 2>> >>,
                           << <<0, 0>>, <<1, 0>>, <<1, 1>>, <<2, 1>> >> >>
          [] p = "I" -> << << <<0, 0>>, <<1, 0>>, <<2, 0>>, <<3, 0>> >>,
                           << <<1, 0>>, <<1, 1>>, <<1, 2>>, <<1, 3>> >>,
                           << <<0, 0>>, <<1, 0>>, <<2, 0>>, <<3, 0>> >>,
                           << <<1, 0>>, <<1, 1>>, <<1, 2>>, <<1, 3>> >> >>]

\* rotation_offsets[rotation as usize]: Rust indexes from 0
offsets_of(p, rot) == ROTATION_OFFSETS[p][rot + 1]

-----------------------------------------------------------------------------
(* The grid *)

\* the index pairs of Grid = [[i32; NCOLS]; NROWS]
GridIdx == (0..(NROWS - 1)) \X (0..(NCOLS - 1))

\* [[0; 10]; 20]
EmptyGrid == [r \in 0..(NROWS - 1) |-> [c \in 0..(NCOLS - 1) |-> 0]]

\* grid[row as usize][col as usize]; an index outside the grid aborts the
\* call (the caller records it through the *_idx operators), so the value
\* given for it here is never used
cell(g, r, c) == IF <<r, c>> \in GridIdx THEN g[r][c] ELSE 0

\* the positions anchor + offset, in table order
positions_at(p, rot, ar, ac) ==
    [i \in 1..4 |-> <<ar + offsets_of(p, rot)[i][1], ac + offsets_of(p, rot)[i][2]>>]

\* grid[row][col] = v
set_cell(g, rc, v) ==
    IF rc \in GridIdx THEN [g EXCEPT ![rc[1]][rc[2]] = v] ELSE g

\* an update whose fill = false branch is missing: it never clears
update_never_clears(g, p, rot, ar, ac, fill) ==
    LET pos == positions_at(p, rot, ar, ac)
    IN  IF fill
        THEN set_cell(set_cell(set_cell(set_cell(g, pos[1], 1), pos[2], 1), pos[3], 1), pos[4], 1)
        ELSE g

\* an update that leaves out the last offset of the footprint
update_three_cells(g, p, rot, ar, ac, fill) ==
    LET pos == positions_at(p, rot, ar, ac)
        v   == IF fill THEN 1 ELSE 0
    IN  set_cell(set_cell(set_cell(g, pos[1], v), pos[2], v), pos[3], v)

\* update(): paint (fill) or clear the four cells of the footprint, one
\* offset after the other
update(g, p, rot, ar, ac, fill) ==
    LET pos == positions_at(p, rot, ar, ac)
        v   == IF fill THEN 1 ELSE 0
    IN  set_cell(set_cell(set_cell(set_cell(g, pos[1], v), pos[2], v), pos[3], v), pos[4], v)

\* the cells update() writes
update_idx(p, rot, ar, ac) == {positions_at(p, rot, ar, ac)[i] : i \in 1..4}

\* a new() that leaves out the call of update
new_unpainted == [grid |-> EmptyGrid,
                  piece |-> "O", rotation |-> 0, anchor_row |-> 0, anchor_col |-> 4]

\* Tetris::new()
new == [grid |-> update(EmptyGrid, "O", 0, 0, 4, TRUE),
        piece |-> "O", rotation |-> 0, anchor_row |-> 0, anchor_col |-> 4]

\* Tetris::falling_piece_positions()
falling_piece_positions(p, rot, ar, ac) == positions_at(p, rot, ar, ac)

-----------------------------------------------------------------------------
(* fits *)

\* a fits that tests only the first three offsets
RECURSIVE fits_scan_three(_, _, _)
fits_scan_three(g, pos, i) ==
    IF i > 3 THEN 5
    ELSE IF cell(g, pos[i][1], pos[i][2]) = 1 THEN i
    ELSE fits_scan_three(g, pos, i + 1)

\* index of the first offset at which fits() returns false, 5 when the loop
\* runs to its end
RECURSIVE fits_scan(_, _, _)
fits_scan(g, pos, i) ==
    IF i > 4 THEN 5
    ELSE IF cell(g, pos[i][1], pos[i][2]) = 1 THEN i
    ELSE fits_scan(g, pos, i + 1)

\* Tetris::fits()
fits(g, p, row, col, rot) == fits_scan(g, positions_at(p, rot, row, col), 1) = 5

\* the cells fits() reads: every offset up to the one it returns at
fits_idx(g, p, row, col, rot) ==
    LET pos  == positions_at(p, rot, row, col)
        stop == fits_scan(g, pos, 1)
    IN  {pos[i] : i \in {j \in 1..4 : j <= stop}}

-----------------------------------------------------------------------------
(* can_drop *)

\* positions.contains(&(row, col))
contains(pos, rc) == \E i \in 1..4 : pos[i] = rc

\* can_drop without the test for the bottom of the grid
RECURSIVE can_drop_scan_no_floor(_, _, _)
can_drop_scan_no_floor(g, pos, i) ==
    IF i > 4 THEN 5
    ELSE LET next_row == pos[i][1] + 1
             col      == pos[i][2]
         IN  IF ~contains(pos, <<next_row, col>>) /\ cell(g, next_row, col) = 1 THEN i
             ELSE can_drop_scan_no_floor(g, pos, i + 1)

\* can_drop without the exclusion of the piece's own cells
RECURSIVE can_drop_scan_no_self(_, _, _)
can_drop_scan_no_self(g, pos, i) ==
    IF i > 4 THEN 5
    ELSE LET next_row == pos[i][1] + 1
             col      == pos[i][2]
         IN  IF next_row = NROWS THEN i
             ELSE IF cell(g, next_row, col) = 1 THEN i
             ELSE can_drop_scan_no_self(g, pos, i + 1)

\* index of the first position at which can_drop() returns false, 5 when
\* the loop runs to its end
RECURSIVE can_drop_scan(_, _, _)
can_drop_scan(g, pos, i) ==
    IF i > 4 THEN 5
    ELSE LET next_row == pos[i][1] + 1
             col      == pos[i][2]
         IN  IF next_row = NROWS THEN i
             ELSE IF ~contains(pos, <<next_row, col>>) /\ cell(g, next_row, col) = 1 THEN i
             ELSE can_drop_scan(g, pos, i + 1)

\* Tetris::can_drop()
can_drop(g, p, rot, ar, ac) ==
    can_drop_scan(g, falling_piece_positions(p, rot, ar, ac), 1) = 5

\* the cells can_drop() reads: below every position up to the one it returns
\* at, except where the bottom test returned first or the cell below is the
\* piece's own (the && short-circuits)
can_drop_idx(g, p, rot, ar, ac) ==
    LET pos  == falling_piece_positions(p, rot, ar, ac)
        stop == can_drop_scan(g, pos, 1)
    IN  {<<pos[i][1] + 1, pos[i][2]>> :
            i \in {j \in 1..4 : /\ j <= stop
                                /\ pos[j][1] + 1 # NROWS
                                /\ ~contains(pos, <<pos[j][1] + 1, pos[j][2]>>)}}

-----------------------------------------------------------------------------
(* shift_down and the row-clearing loop of tick *)

\* the loop `for r in (1..row).rev()`: grid[r] = grid[r - 1], r descending
RECURSIVE shift_rows(_, _)
shift_rows(g, r) ==
    IF r < 1 THEN g
    ELSE shift_rows([g EXCEPT ![r] = g[r - 1]], r - 1)

\* shift_down as its doc comment describes it: the rows above `row` move
\* down by one, so that row `row` itself is overwritten
shift_down_inclusive(g, row) ==
    [shift_rows(g, row) EXCEPT ![0] = [c \in 0..(NCOLS - 1) |-> 0]]

\* Tetris::shift_down(): r runs over 1 .. row - 1 (the range excludes `row`),
\* then row 0 is emptied
shift_down(g, row) ==
    [shift_rows(g, row - 1) EXCEPT ![0] = [c \in 0..(NCOLS - 1) |-> 0]]

\* the cells shift_down() reads or writes: rows 0 .. row - 1
shift_down_idx(row) == (0..(row - 1)) \X (0..(NCOLS - 1))

\* self.grid[row].iter().sum::<i32>()
RECURSIVE row_sum_from(_, _, _)
row_sum_from(g, row, c) ==
    IF c >= NCOLS THEN 0 ELSE cell(g, row, c) + row_sum_from(g, row, c + 1)

row_sum(g, row) == row_sum_from(g, row, 0)

\* min_row and max_row of the footprint, folded from NROWS and 0
RECURSIVE min_row_from(_, _)
min_row_from(pos, i) ==
    IF i > 4 THEN NROWS
    ELSE LET m == min_row_from(pos, i + 1)
         IN  IF pos[i][1] < m THEN pos[i][1] ELSE m

RECURSIVE max_row_from(_, _)
max_row_from(pos, i) ==
    IF i > 4 THEN 0
    ELSE LET m == max_row_from(pos, i + 1)
         IN  IF pos[i][1] > m THEN pos[i][1] ELSE m

min_row_of(pos) == min_row_from(pos, 1)
max_row_of(pos) == max_row_from(pos, 1)

\* a loop that tests every row of the grid instead of the rows of the span
RECURSIVE clear_all_from(_, _)
clear_all_from(g, row) ==
    IF row > NROWS - 1 THEN g
    ELSE clear_all_from(IF row_sum(g, row) = NCOLS THEN shift_down(g, row) ELSE g,
                        row + 1)

clear_rows_every_row(g, row, max_row) == clear_all_from(g, 0)

\* the loop `for row in min_row..=max_row`: shift at every complete row
RECURSIVE clear_rows(_, _, _)
clear_rows(g, row, max_row) ==
    IF row > max_row THEN g
    ELSE clear_rows(IF row_sum(g, row) = NCOLS THEN shift_down(g, row) ELSE g,
                    row + 1, max_row)

\* the cells that loop reads or writes
RECURSIVE clear_rows_idx(_, _, _)
clear_rows_idx(g, row, max_row) ==
    IF row > max_row THEN {}
    ELSE LET full == row_sum(g, row) = NCOLS
         IN  {<<row, c>> : c \in 0..(NCOLS - 1)}
             \cup (IF full THEN shift_down_idx(row) ELSE {})
             \cup clear_rows_idx(IF full THEN shift_down(g, row) ELSE g,
                                 row + 1, max_row)

\* the number of shift_down calls that loop makes
RECURSIVE shift_down_calls(_, _, _)
shift_down_calls(g, row, max_row) ==
    IF row > max_row THEN 0
    ELSE LET full == row_sum(g, row) = NCOLS
         IN  (IF full THEN 1 ELSE 0)
             + shift_down_calls(IF full THEN shift_down(g, row) ELSE g,
                                row + 1, max_row)

-----------------------------------------------------------------------------
(* tick *)

\* a successor rule with the modulus one too small: S is followed by O
next_piece_mod_six(p) == try_from((piece_as_i32(p) + 1) % 6)

\* ((self.piece as i32 + 1) % 7).try_into().unwrap()
next_piece(p) == try_from((piece_as_i32(p) + 1) % 7)

\* the drop branch of tick(): erase, move the anchor, repaint
drop(s) ==
    [grid |-> update(update(s.grid, s.piece, s.rotation, s.anchor_row,
                            s.anchor_col, FALSE),
                     s.piece, s.rotation, s.anchor_row + 1, s.anchor_col, TRUE),
     piece |-> s.piece, rotation |-> s.rotation,
     anchor_row |-> s.anchor_row + 1, anchor_col |-> s.anchor_col,
     should_continue |-> TRUE, spawned |-> 0,
     idx |-> update_idx(s.piece, s.rotation, s.anchor_row, s.anchor_col)
             \cup update_idx(s.piece, s.rotation, s.anchor_row + 1, s.anchor_col)]

\* a spawn that adopts the new piece and forgets to paint it
spawn_unpainted(g1, new_piece) ==
    [grid |-> g1,
     piece |-> new_piece, rotation |-> 0, anchor_row |-> 0, anchor_col |-> 4,
     should_continue |-> TRUE, spawned |-> 1,
     idx |-> {}]

\* the branch of tick() in which new_piece fits: adopt it and paint it
spawn(g1, new_piece) ==
    [grid |-> update(g1, new_piece, 0, 0, 4, TRUE),
     piece |-> new_piece, rotation |-> 0, anchor_row |-> 0, anchor_col |-> 4,
     should_continue |-> TRUE, spawned |-> 1,
     idx |-> update_idx(new_piece, 0, 0, 4)]

\* a failed spawn that has already adopted the new piece
failed_spawn_adopts(s, g1, new_piece) ==
    [grid |-> g1,
     piece |-> new_piece, rotation |-> 0, anchor_row |-> 0, anchor_col |-> 4,
     should_continue |-> FALSE, spawned |-> 0,
     idx |-> {}]

\* the branch of tick() in which new_piece does not fit: nothing is assigned
failed_spawn(s, g1, new_piece) ==
    [grid |-> g1,
     piece |-> s.piece, rotation |-> s.rotation,
     anchor_row |-> s.anchor_row, anchor_col |-> s.anchor_col,
     should_continue |-> FALSE, spawned |-> 0,
     idx |-> {}]

\* the landing branch of tick(): 2. complete rows, 3. room for the new piece
land(s) ==
    \* (the bound variables are evaluated once)
    LET LandWith(pos) ==
            LET LandOn(g1, new_piece) ==
                    LET r == IF fits(g1, new_piece, 0, 4, 0)
                             THEN spawn(g1, new_piece)
                             ELSE failed_spawn(s, g1, new_piece)
                    IN  [r EXCEPT !.idx = @ \cup fits_idx(g1, new_piece, 0, 4, 0)
                                            \cup clear_rows_idx(s.grid, min_row_of(pos),
                                                                max_row_of(pos))]
            IN  LandOn(clear_rows(s.grid, min_row_of(pos), max_row_of(pos)),
                       next_piece(s.piece))
    IN  LandWith(falling_piece_positions(s.piece, s.rotation, s.anchor_row, s.anchor_col))

\* Tetris::tick() on the Tetris value s: the value afterwards, the boolean
\* returned, in idx every grid cell the call reads or writes, and in spawned
\* the number of pieces it painted at the spawn position
tick(s) ==
    LET r == IF can_drop(s.grid, s.piece, s.rotation, s.anchor_row, s.anchor_col)
             THEN drop(s)
             ELSE land(s)
    IN  [r EXCEPT !.idx = @ \cup can_drop_idx(s.grid, s.piece, s.rotation,
                                              s.anchor_row, s.anchor_col)]

-----------------------------------------------------------------------------
(* Actions *)

\* the Tetris value held in the variables
State == [grid |-> grid, piece |-> piece, rotation |-> rotation,
          anchor_row |-> anchor_row, anchor_col |-> anchor_col]

\* one call tetris.tick(): the fields afterwards, or the abort when an index
\* left the grid
CallTick ==
    /\ prev' = State
    /\ nticks' = nticks + 1
    /\ \E t \in {tick(State)} :
           IF t.idx \subseteq GridIdx
           THEN /\ grid' = t.grid
                /\ piece' = t.piece
                /\ rotation' = t.rotation
                /\ anchor_row' = t.anchor_row
                /\ anchor_col' = t.anchor_col
                /\ should_continue' = t.should_continue
                /\ nspawned' = nspawned + t.spawned
                /\ panicked' = FALSE
           ELSE /\ panicked' = TRUE
                /\ UNCHANGED <<tetris_vars, should_continue, nspawned>>

\* tetris.tick() called directly
Tick ==
    /\ ~panicked
    /\ nticks < MaxTicks
    /\ CallTick
    /\ UNCHANGED <<chan, pc>>

\* an event() that moves the active piece one column to the left
EventMovesLeft ==
    /\ ~panicked
    /\ should_continue
    /\ anchor_col > 0
    /\ grid' = update(update(grid, piece, rotation, anchor_row, anchor_col, FALSE),
                      piece, rotation, anchor_row, anchor_col - 1, TRUE)
    /\ anchor_col' = anchor_col - 1
    /\ UNCHANGED <<piece, rotation, anchor_row, should_continue, panicked,
                   nticks, nspawned, prev, chan, pc>>

\* Tetris::event(): an empty body
Event ==
    /\ ~panicked
    /\ UNCHANGED vars

Init ==
    /\ grid = new.grid
    /\ piece = new.piece
    /\ rotation = new.rotation
    /\ anchor_row = new.anchor_row
    /\ anchor_col = new.anchor_col
    /\ should_continue = TRUE
    /\ panicked = FALSE
    /\ nticks = 0
    /\ nspawned = 1
    /\ prev = new
    /\ chan = <<>>
    /\ pc = "loop"

Next == Tick \/ Event

Spec == Init /\ [][Next]_vars

\* tick() is called again and again
SpecRepeated == Spec /\ WF_vars(Tick)

-----------------------------------------------------------------------------
(* SpecAny: one tick() on a Tetris value drawn from a bounded family.      *)
(* The value has the active footprint inside the grid and painted; the    *)
(* rest of the grid is empty or textured, plus up to MaxFull completely    *)
(* filled rows near the piece.                                            *)

\* the texture fills columns 0..3 on diagonals, so that neighbouring rows
\* differ and no row is complete by the texture alone
texture(textured, r, c) ==
    IF textured /\ (r + c) % 3 = 0 /\ c < 4 THEN 1 ELSE 0

background(textured, full_rows) ==
    [r \in 0..(NROWS - 1) |-> [c \in 0..(NCOLS - 1) |->
        IF r \in full_rows THEN 1 ELSE texture(textured, r, c)]]

\* a Tetris value with any piece placed anywhere inside an empty grid
InitAny ==
    \E p \in {Piece[i] : i \in 1..7}, rot \in 0..3,
       ar \in 0..(NROWS - 1), ac \in 0..(NCOLS - 1) :
        /\ update_idx(p, rot, ar, ac) \subseteq GridIdx
        /\ grid = update(EmptyGrid, p, rot, ar, ac, TRUE)
        /\ piece = p
        /\ rotation = rot
        /\ anchor_row = ar
        /\ anchor_col = ac
        /\ should_continue = TRUE
        /\ panicked = FALSE
        /\ nticks = 0
        /\ nspawned = 1
        /\ prev = [grid |-> grid, piece |-> p, rotation |-> rot,
                   anchor_row |-> ar, anchor_col |-> ac]
        /\ chan = <<>>
        /\ pc = "setup"

\* the grid around the piece is filled in before the tick: a texture and
\* completely filled rows at offsets -1..4 from the anchor row
Fill ==
    /\ pc = "setup"
    /\ nticks = 0
    /\ \E t \in BOOLEAN, D \in SUBSET ((-1)..4) :
        /\ Cardinality(D) <= MaxFull
        /\ \A d \in D : anchor_row + d \in 0..(NROWS - 1)
        /\ grid' = update(background(t, {anchor_row + d : d \in D}),
                          piece, rotation, anchor_row, anchor_col, TRUE)
    /\ prev' = [prev EXCEPT !.grid = grid']
    /\ pc' = "loop"
    /\ UNCHANGED <<piece, rotation, anchor_row, anchor_col, should_continue,
                   panicked, nticks, nspawned, chan>>

\* the single tick() call of SpecAny
TickOnce ==
    /\ nticks = 0
    /\ CallTick
    /\ UNCHANGED <<chan, pc>>

NextAny == Fill \/ TickOnce

SpecAny == InitAny /\ [][NextAny]_vars

-----------------------------------------------------------------------------
(* SpecDriver: main() and the two threads of Driver::new()                 *)

\* enum Event, as the input thread sends it
Events == {"Left", "Right", "CounterClock", "Clock"}

\* tick_thread: tx.send(Iteration::Tick)
TimerSend ==
    /\ pc # "exited"
    /\ Len(chan) < MaxQueue
    /\ chan' = Append(chan, "Tick")
    /\ UNCHANGED <<tetris_vars, should_continue, panicked, nticks, nspawned, prev, pc>>

\* input_thread: keys a, d, q, e send an Event
InputSend ==
    /\ pc # "exited"
    /\ Len(chan) < MaxQueue
    /\ \E e \in Events : chan' = Append(chan, e)
    /\ UNCHANGED <<tetris_vars, should_continue, panicked, nticks, nspawned, prev, pc>>

\* input_thread: Esc calls std::process::exit(0)
InputEsc ==
    /\ pc # "exited"
    /\ pc' = "exited"
    /\ UNCHANGED <<tetris_vars, should_continue, panicked, nticks, nspawned, prev, chan>>

\* the body of a loop that ignores the result of tick()
MainTickNoBreak ==
    /\ pc = "loop"
    /\ ~panicked
    /\ chan # <<>>
    /\ Head(chan) = "Tick"
    /\ chan' = Tail(chan)
    /\ CallTick
    /\ pc' = "loop"

\* main(): driver.next() yields Iteration::Tick; break when tick() is false
MainTick ==
    /\ pc = "loop"
    /\ ~panicked
    /\ chan # <<>>
    /\ Head(chan) = "Tick"
    /\ chan' = Tail(chan)
    /\ CallTick
    /\ pc' = IF should_continue' THEN "loop" ELSE "done"

\* an event arm that falls through to the tick
MainEventTicks ==
    /\ pc = "loop"
    /\ ~panicked
    /\ chan # <<>>
    /\ Head(chan) \in Events
    /\ chan' = Tail(chan)
    /\ CallTick
    /\ pc' = IF should_continue' THEN "loop" ELSE "done"

\* main(): driver.next() yields Iteration::Event(evt); tetris.event(evt)
MainEvent ==
    /\ pc = "loop"
    /\ ~panicked
    /\ chan # <<>>
    /\ Head(chan) \in Events
    /\ chan' = Tail(chan)
    /\ UNCHANGED <<tetris_vars, should_continue, panicked, nticks, nspawned, prev, pc>>

NextDriver == TimerSend \/ InputSend \/ InputEsc \/ MainTick \/ MainEvent

SpecDriver == Init /\ [][NextDriver]_vars

-----------------------------------------------------------------------------
(* Vocabulary of the properties *)

\* the cells of a piece at a rotation and an anchor, as a set
Footprint(p, rot, ar, ac) ==
    {<<ar + ROTATION_OFFSETS[p][rot + 1][i][1], ac + ROTATION_OFFSETS[p][rot + 1][i][2]>> :
        i \in 1..4}

ActiveFootprint == Footprint(piece, rotation, anchor_row, anchor_col)
PrevFootprint == Footprint(prev.piece, prev.rotation, prev.anchor_row, prev.anchor_col)

\* the occupied cells of a grid
Occupied(g) == {rc \in GridIdx : g[rc[1]][rc[2]] = 1}

\* the footprint is inside the grid and painted
FootprintPainted(g, p, rot, ar, ac) ==
    \A rc \in Footprint(p, rot, ar, ac) : rc \in GridIdx /\ g[rc[1]][rc[2]] = 1

\* the enumeration order of the pieces
PieceOrder == <<"O", "L", "J", "T", "Z", "S", "I">>
OrderIndex(p) == CHOOSE i \in 1..7 : PieceOrder[i] = p
Successor(p) == PieceOrder[(OrderIndex(p) % 7) + 1]

\* the last tick() call found the piece able to drop / unable to drop
PrevCouldDrop ==
    can_drop(prev.grid, prev.piece, prev.rotation, prev.anchor_row, prev.anchor_col)
Ticked == nticks > 0
Dropped == Ticked /\ PrevCouldDrop
Landed == Ticked /\ ~PrevCouldDrop

\* the rows spanned by the footprint before the last tick, and the complete
\* ones among them
PrevSpan == {rc[1] : rc \in PrevFootprint}
RowComplete(g, r) == \A c \in 0..(NCOLS - 1) : g[r][c] = 1
PrevCompleteRows == {r \in PrevSpan : RowComplete(prev.grid, r)}

\* the cells a successor painted by the last tick occupies
SpawnCells(p) == Footprint(p, 0, 0, 4)
PaintedSuccessor ==
    IF Landed /\ should_continue THEN SpawnCells(piece) ELSE {}

-----------------------------------------------------------------------------
(* Properties *)

\* C1: in every state reached from new() by tick() calls the four cells of
\* the active piece lie inside the grid and are occupied
C1_FootprintPainted ==
    FootprintPainted(grid, piece, rotation, anchor_row, anchor_col)

\* C1 witness: a second piece is falling above the landed first one
C1_Witness ==
    /\ piece = "L" /\ anchor_row > 0
    /\ FootprintPainted(grid, piece, rotation, anchor_row, anchor_col)

\* C2: when the painted, in-bounds piece can drop, tick() returns true, moves
\* the anchor one row down, keeps piece, rotation and column, and the grid is
\* the old grid with the old footprint cleared and the lowered one set
C2_DropFrame ==
    (/\ Ticked
     /\ FootprintPainted(prev.grid, prev.piece, prev.rotation, prev.anchor_row,
                         prev.anchor_col)
     /\ PrevCouldDrop)
    => /\ ~panicked
       /\ should_continue
       /\ anchor_row = prev.anchor_row + 1
       /\ piece = prev.piece /\ rotation = prev.rotation
       /\ anchor_col = prev.anchor_col
       /\ Occupied(grid) = (Occupied(prev.grid) \ PrevFootprint)
                           \cup Footprint(prev.piece, prev.rotation,
                                          prev.anchor_row + 1, prev.anchor_col)

\* C2 witness: a piece has dropped inside a grid that holds other cells
C2_Witness ==
    /\ Dropped
    /\ ActiveFootprint = Footprint(prev.piece, prev.rotation, prev.anchor_row + 1,
                                   prev.anchor_col)
    /\ Occupied(grid) \ ActiveFootprint # {}
    /\ Occupied(grid) \ ActiveFootprint = Occupied(prev.grid) \ PrevFootprint

\* C3: when the piece cannot drop and exactly one row R of its span is
\* complete, then after tick(), apart from the cells of a painted successor,
\* row r equals the former row r - 1 for every r in 1..R and row 0 is empty
C3_ClearShiftsRowsDown ==
    (Landed /\ Cardinality(PrevCompleteRows) = 1)
    => \A R \in PrevCompleteRows :
         /\ \A r \in 1..R : \A c \in 0..(NCOLS - 1) :
              <<r, c>> \notin PaintedSuccessor => grid[r][c] = prev.grid[r - 1][c]
         /\ \A c \in 0..(NCOLS - 1) :
              <<0, c>> \notin PaintedSuccessor => grid[0][c] = 0

\* C4: when the piece cannot drop and the successor does not fit at the
\* spawn position, tick() returns false, keeps piece, rotation and anchor,
\* and leaves the grid as the row-clear step left it (the grid before the
\* call when no row of the span was complete)
C4_FailedSpawnFrame ==
    LET min_row == min_row_of(falling_piece_positions(prev.piece, prev.rotation,
                                                       prev.anchor_row, prev.anchor_col))
        max_row == max_row_of(falling_piece_positions(prev.piece, prev.rotation,
                                                       prev.anchor_row, prev.anchor_col))
        cleared == clear_rows(prev.grid, min_row, max_row)
    IN  (/\ Landed
         /\ \E rc \in SpawnCells(Successor(prev.piece)) : cleared[rc[1]][rc[2]] = 1)
        => /\ ~should_continue
           /\ piece = prev.piece /\ rotation = prev.rotation
           /\ anchor_row = prev.anchor_row /\ anchor_col = prev.anchor_col
           /\ grid = cleared
           /\ (PrevCompleteRows = {} => grid = prev.grid)

\* C4 witness: a tick has returned false on a grid in which the successor's
\* spawn cells were partly free, and nothing was painted
C4_Witness ==
    /\ Landed /\ ~should_continue
    /\ PrevCompleteRows = {}
    /\ SpawnCells(Successor(prev.piece)) \ Occupied(prev.grid) # {}
    /\ grid = prev.grid

\* C5: once a tick() call has returned false, every later call returns false
\* and changes none of grid, piece, rotation, anchor_row, anchor_col
C5_GameOverTerminal ==
    [][~should_continue => (~should_continue' /\ UNCHANGED tetris_vars)]_vars

\* C5 witness: tick() has been called again after a call that returned false
C5_Witness ==
    /\ ~should_continue
    /\ nticks = MaxTicks
    /\ prev = State

\* C6: a tick() that lands the piece and adopts a successor moves the piece
\* one place on in the cyclic order O, L, J, T, Z, S, I; any other tick()
\* keeps the piece
C6_PieceCycle ==
    Ticked =>
        IF Landed /\ should_continue
        THEN OrderIndex(piece) - 1 = (OrderIndex(prev.piece) - 1 + 1) % 7
        ELSE piece = prev.piece

\* C6 witness: I has landed and O was adopted
C6_Witness ==
    /\ Landed /\ should_continue
    /\ prev.piece = "I" /\ piece = "O"

\* C7: from new() the first 19 calls return true; after k <= 18 calls the O
\* piece is k rows down; after the 19th it rests on rows 18-19, columns 4-5,
\* and L is painted at (0,4),(1,4),(2,4),(2,5), rotation 0, anchor (0,4)
C7_NineteenTicks ==
    /\ nticks \in 1..19 => should_continue
    /\ nticks \in 0..18 =>
        /\ piece = "O" /\ rotation = 0 /\ anchor_row = nticks /\ anchor_col = 4
        /\ Occupied(grid) = {<<nticks, 4>>, <<nticks, 5>>,
                             <<nticks + 1, 4>>, <<nticks + 1, 5>>}
    /\ nticks = 19 =>
        /\ piece = "L" /\ rotation = 0 /\ anchor_row = 0 /\ anchor_col = 4
        /\ Occupied(grid) = {<<18, 4>>, <<18, 5>>, <<19, 4>>, <<19, 5>>,
                             <<0, 4>>, <<1, 4>>, <<2, 4>>, <<2, 5>>}

\* C7 witness: the state after the 19th call
C7_Witness == nticks = 19 /\ piece = "L" /\ grid[19][5] = 1

\* C8: new() gives piece O, rotation 0, anchor (0,4) and a grid in which
\* exactly (0,4), (0,5), (1,4), (1,5) are occupied
C8_NewState ==
    nticks = 0 =>
        /\ piece = "O" /\ rotation = 0 /\ anchor_row = 0 /\ anchor_col = 4
        /\ Occupied(grid) = {<<0, 4>>, <<0, 5>>, <<1, 4>>, <<1, 5>>}
        /\ Cardinality(GridIdx \ Occupied(grid)) = 196

\* C8 witness: the state new() returns
C8_Witness == nticks = 0 /\ State = new /\ grid[1][5] = 1

\* C9: no tick() call of a run from new() uses a grid index outside rows
\* 0..19 and columns 0..9, and the four positions fits is called on lie
\* inside the grid
C9_IndicesInBounds ==
    /\ ~panicked
    /\ tick(State).idx \subseteq GridIdx
    /\ Footprint(Successor(piece), 0, 0, 4) \subseteq GridIdx

\* C9 witness: a piece rests on the bottom row and tick() has called fits
C9_Witness ==
    /\ Landed /\ ~panicked
    /\ \E rc \in PrevFootprint : rc[1] = NROWS - 1

\* C10: once a Tick message's tick() call has returned false the loop has
\* ended, and from then on nothing is received and the simulation is not
\* touched, whatever is queued or sent
C10_LoopEndsAtGameOver ==
    /\ [](~should_continue => pc # "loop")
    /\ [][pc # "loop" => /\ UNCHANGED <<tetris_vars, should_continue, nticks, prev>>
                         /\ Len(chan') >= Len(chan)]_vars

\* C10 witness: the loop has ended on a false tick() and the channel is full
\* of Tick and event messages, the last of them sent after the loop ended
C10_Witness ==
    /\ pc = "done" /\ ~should_continue
    /\ Len(chan) = MaxQueue
    /\ \E i \in 1..Len(chan) : chan[i] = "Tick"
    /\ \E i \in 1..Len(chan) : chan[i] \in Events

\* the Tetris value a tick() result holds
tetris_of(t) == [grid |-> t.grid, piece |-> t.piece, rotation |-> t.rotation,
                 anchor_row |-> t.anchor_row, anchor_col |-> t.anchor_col]

\* C11: whatever the interleaving of the two sending threads, the Tetris
\* value changes only when main receives the message at the head of the
\* channel, an event message changes none of its fields, and the value is
\* new() before the first Tick message and advances by exactly one tick()
\* per Tick message received (so after n of them it is the value n
\* successive tick() calls give from new())
C11_OnlyConsumerMutates ==
    /\ [](nticks = 0 => State = new)
    /\ [][(tetris_vars' # tetris_vars \/ nticks' # nticks)
            => (/\ pc = "loop" /\ chan # <<>> /\ Head(chan) = "Tick"
                /\ chan' = Tail(chan)
                /\ nticks' = nticks + 1
                /\ State' = tetris_of(tick(State)))]_vars
    /\ [][(pc = "loop" /\ chan # <<>> /\ chan' = Tail(chan))
            => IF Head(chan) = "Tick"
               THEN nticks' = nticks + 1 /\ State' = tetris_of(tick(State))
               ELSE UNCHANGED <<tetris_vars, nticks>>]_vars

\* C11 witness: main has handled Tick messages up to the second piece and
\* holds an event and a Tick message sent by the two threads in its channel
C11_Witness ==
    /\ pc = "loop"
    /\ nticks >= 20 /\ piece = "L"
    /\ Len(chan) >= 2 /\ chan[1] \in Events /\ chan[2] = "Tick"

\* the active footprint moved one row down
BelowFootprint == Footprint(piece, rotation, anchor_row + 1, anchor_col)

\* the reference test: one row lower the footprint stays inside the grid and
\* meets no occupied cell other than the piece's own
CanDropReference ==
    \A rc \in BelowFootprint :
        /\ rc[1] \in 0..(NROWS - 1)
        /\ rc \in ActiveFootprint \/ grid[rc[1]][rc[2]] = 0

\* C12: for a painted, in-bounds footprint can_drop() is true exactly when
\* the footprint one row lower lies in rows 0..19 and overlaps no cell that
\* is occupied once the piece's own footprint is erased, i.e. when it is in
\* bounds and fits() accepts it on the grid with the own footprint erased
C12_CanDropAgreesWithReference ==
    FootprintPainted(grid, piece, rotation, anchor_row, anchor_col)
    => /\ can_drop(grid, piece, rotation, anchor_row, anchor_col) <=> CanDropReference
       /\ CanDropReference <=>
            (/\ BelowFootprint \subseteq GridIdx
             /\ fits(update(grid, piece, rotation, anchor_row, anchor_col, FALSE),
                     piece, anchor_row + 1, anchor_col, rotation))

\* C12 witness: can_drop() is true although a cell below the piece is
\* occupied, by the piece itself, in a grid that holds other cells too
C12_Witness ==
    /\ nticks = 0 /\ pc = "loop"
    /\ FootprintPainted(grid, piece, rotation, anchor_row, anchor_col)
    /\ can_drop(grid, piece, rotation, anchor_row, anchor_col)
    /\ BelowFootprint \cap ActiveFootprint # {}
    /\ Occupied(grid) \ ActiveFootprint # {}

\* row r of the grid equals row q of the grid before the last tick, apart
\* from the cells of a painted successor
RowIsFormerRow(r, q) ==
    \A c \in 0..(NCOLS - 1) :
        <<r, c>> \notin PaintedSuccessor => grid[r][c] = prev.grid[q][c]

\* row r of the grid is empty, apart from the cells of a painted successor
RowIsEmpty(r) ==
    \A c \in 0..(NCOLS - 1) : <<r, c>> \notin PaintedSuccessor => grid[r][c] = 0

\* C13: when the piece cannot drop and exactly two rows R1 < R2 of its span
\* are complete, then after tick(), apart from a painted successor, rows 0
\* and 1 are empty, every row formerly above R1 lies two rows lower and
\* every row formerly between R1 and R2 lies one row lower (so neither
\* complete row is left)
C13_TwoClearsShiftTwice ==
    (Landed /\ Cardinality(PrevCompleteRows) = 2)
    => \A R1 \in PrevCompleteRows, R2 \in PrevCompleteRows :
         R1 < R2 =>
           /\ RowIsEmpty(0) /\ RowIsEmpty(1)
           /\ \A q \in 0..(R1 - 1) : RowIsFormerRow(q + 2, q)
           /\ \A q \in (R1 + 1)..(R2 - 1) : RowIsFormerRow(q + 1, q)

\* C14: when the piece cannot drop, no row of its span is complete and the
\* successor fits at the spawn position, tick() returns true, sets rotation
\* 0 and anchor (0,4), and the grid is the former grid with exactly the
\* successor's four spawn cells added
C14_SpawnFrame ==
    (/\ Landed
     /\ PrevCompleteRows = {}
     /\ SpawnCells(Successor(prev.piece)) \cap Occupied(prev.grid) = {})
    => /\ should_continue
       /\ rotation = 0 /\ anchor_row = 0 /\ anchor_col = 4
       /\ Occupied(grid) = Occupied(prev.grid) \cup SpawnCells(Successor(prev.piece))
       /\ PrevFootprint \subseteq Occupied(grid)

\* C14 witness: a piece has landed in a grid holding other cells, without
\* completing a row, and its successor was painted at the spawn position
C14_Witness ==
    /\ Landed /\ should_continue
    /\ PrevCompleteRows = {}
    /\ piece = Successor(prev.piece)
    /\ Occupied(prev.grid) \ PrevFootprint # {}
    /\ Occupied(grid) \ Occupied(prev.grid) = SpawnCells(piece)

\* the rows outside the span that were complete before the last tick
PrevCompleteOutside ==
    {r \in 0..(NROWS - 1) : r \notin PrevSpan /\ RowComplete(prev.grid, r)}

\* the cells the last tick changed, apart from those of a painted successor
ChangedCells ==
    {rc \in GridIdx : /\ grid[rc[1]][rc[2]] # prev.grid[rc[1]][rc[2]]
                      /\ rc \notin PaintedSuccessor}

\* C15: a landing tick() tests only the rows of the landed footprint's span
\* and changes, apart from painting the successor, only rows at or above a
\* complete row of the span: every row below the lowest complete row of the
\* span is unchanged, and when no row of the span is complete nothing at
\* all is shifted, whatever complete rows there are outside the span
C15_ClearOnlyWithinSpan ==
    Landed =>
      \A rc \in ChangedCells : \E R \in PrevCompleteRows : rc[1] <= R

\* C15 witness: a piece has landed on a complete row that lies outside its
\* span; the row is still there and nothing moved
C15_Witness ==
    /\ Landed
    /\ PrevCompleteRows = {}
    /\ \E r \in PrevCompleteOutside : RowComplete(grid, r)
    /\ ChangedCells = {}
    /\ Occupied(prev.grid) \ PrevFootprint # {}

\* the offsets of a rotation state, as a set
OffsetSet(p, k) == {ROTATION_OFFSETS[p][k + 1][i] : i \in 1..4}

\* a cell set moved so that its least row and least column are 0
Normalised(S) ==
    LET r0 == CHOOSE r \in {rc[1] : rc \in S} : \A rc \in S : r <= rc[1]
        c0 == CHOOSE c \in {rc[2] : rc \in S} : \A rc \in S : c <= rc[2]
    IN  {<<rc[1] - r0, rc[2] - c0>> : rc \in S}

\* a cell set turned clockwise by 90 degrees (rows grow downwards)
TurnedClockwise(S) == {<<rc[2], 0 - rc[1]>> : rc \in S}

RECURSIVE Turned(_, _)
Turned(S, k) == IF k = 0 THEN S ELSE Turned(TurnedClockwise(S), k - 1)

\* rotation state k of piece p is the rotation-0 shape turned clockwise by
\* k quarter turns, up to translation
StateIsQuarterTurns(p, k) ==
    Normalised(OffsetSet(p, k)) = Normalised(Turned(OffsetSet(p, 0), k))

\* the table entry of piece p has four states of four distinct offsets
\* inside the 4x4 square
EntryWellFormed(p) ==
    /\ Len(ROTATION_OFFSETS[p]) = 4
    /\ \A k \in 0..3 :
         /\ Len(ROTATION_OFFSETS[p][k + 1]) = 4
         /\ Cardinality(OffsetSet(p, k)) = 4
         /\ OffsetSet(p, k) \subseteq (0..3) \X (0..3)

\* C16: in the rotation table every piece (each of the 7 becomes the active
\* piece in the run from new()) has exactly 4 rotation states of 4 distinct
\* offsets inside the 4x4 square, and state k is, up to translation, state 0
\* turned clockwise by k quarter turns
C16_RotationTable ==
    /\ EntryWellFormed(piece)
    /\ \A k \in 1..3 : StateIsQuarterTurns(piece, k)

\* what the table does satisfy: every entry is well formed and every state
\* is the turned state 0, except state 3 of L, which has the shape of T
RotationTableExceptLThree ==
    /\ \A i \in 1..7 : EntryWellFormed(Piece[i])
    /\ \A i \in 1..7 : \A k \in 1..3 :
         (Piece[i] # "L" \/ k # 3) => StateIsQuarterTurns(Piece[i], k)
    /\ ~StateIsQuarterTurns("L", 3)
    /\ Normalised(OffsetSet("L", 3)) = Normalised(OffsetSet("T", 2))

\* the k-th piece painted since new(), the initial O being the first
NthPiece(k) == PieceOrder[((k - 1) % 7) + 1]

\* C17: repeated tick() calls from new() reach game over: the first 80
\* calls return true and the 81st returns false, when 8 pieces
\* (O, L, J, T, Z, S, I, O) have been painted and placed, the eighth is
\* still the active piece and its successor L does not fit at the spawn
\* position
C17_GameOverAtTick81 ==
    /\ [](/\ nticks <= 80 => should_continue
          /\ nspawned <= 8 /\ piece = NthPiece(nspawned)
          /\ nticks = 81 =>
               /\ ~should_continue
               /\ nspawned = 8 /\ piece = "O" /\ Successor(piece) = "L"
               /\ \E rc \in SpawnCells("L") : grid[rc[1]][rc[2]] = 1)
    /\ <>(~should_continue)

\* C17 witness: the 81st call has returned false with the eighth piece, an
\* O, landed on top of the stack
C17_Witness ==
    /\ nticks = 81 /\ ~should_continue
    /\ nspawned = 8 /\ piece = "O" /\ ~PrevCouldDrop

\* the columns no piece spawned at column 4 in rotation 0 reaches
OuterColumns == (0..3) \cup (7..(NCOLS - 1))

\* C18: in every state reached from new() by tick() calls and input events
\* the rotation is 0, the anchor column is 4 and columns 0..3 and 7..9 are
\* empty; so no row is ever complete, and no tick() finds a complete row in
\* the span of the landed piece, which is the only place shift_down is
\* called from
C18_CentreColumnsOnly ==
    /\ rotation = 0 /\ anchor_col = 4
    /\ \A r \in 0..(NROWS - 1) : \A c \in OuterColumns : grid[r][c] = 0
    /\ \A r \in 0..(NROWS - 1) : row_sum(grid, r) # NCOLS
    /\ Landed =>
         LET positions == falling_piece_positions(prev.piece, prev.rotation,
                                                  prev.anchor_row, prev.anchor_col)
         IN  shift_down_calls(prev.grid, min_row_of(positions),
                              max_row_of(positions)) = 0

\* C18 witness: a piece has landed on a stack whose widest row holds three
\* cells, in columns 4, 5 and 6
C18_Witness ==
    /\ Landed /\ nspawned >= 3
    /\ rotation = 0 /\ anchor_col = 4
    /\ \E r \in 0..(NROWS - 1) : row_sum(grid, r) = 3 /\ grid[r][6] = 1

\* the cells of the pieces that had landed before the last tick
PrevLandedCells == Occupied(prev.grid) \ PrevFootprint

\* C19: in every state reached from new() by tick() calls every cell holds
\* 0 or 1 and the occupied cells number 4 times the pieces spawned so far
\* (the initial O included): the last tick erased no cell of a landed piece
\* and painted the lowered or the spawned piece on free cells only
C19_FourCellsPerPiece ==
    /\ \A rc \in GridIdx : grid[rc[1]][rc[2]] \in {0, 1}
    /\ Cardinality(Occupied(grid)) = 4 * nspawned
    /\ Ticked =>
         /\ PrevLandedCells \subseteq Occupied(grid)
         /\ Dropped => ActiveFootprint \cap PrevLandedCells = {}
         /\ PaintedSuccessor \cap Occupied(prev.grid) = {}

\* C19 witness: the third piece is falling above two landed ones, twelve
\* cells are occupied
C19_Witness ==
    /\ nspawned = 3 /\ Dropped
    /\ PrevLandedCells # {} /\ Cardinality(Occupied(grid)) = 12

====
